---- MODULE Spec2Model ----
(***************************************************************************)
(* Model of piet-wgsl/src/shaders.rs: the shader source loader             *)
(* (load_shader_sources) and the two pipeline registration operations      *)
(* (init_shaders, full_shaders).                                           *)
(*                                                                         *)
(* One behaviour is one invocation of one build operation against one      *)
(* engine.  The text of a shader file is represented by the file's name:   *)
(* distinct files hold distinct texts.  preprocess::preprocess and         *)
(* Engine::add_shader live outside this file; a call is recorded with the  *)
(* arguments the call site passes (source text, feature set, bindings).    *)
(* preprocess::get_imports is taken to succeed; its table is passed        *)
(* through unchanged to every preprocess call and is not represented.      *)
(***************************************************************************)
EXTENDS Naturals, Sequences, FiniteSets, TLC

VARIABLES
    backend,    \* "disk" (not wasm32) or "embedded" (wasm32): the cfg that is compiled in
    variant,    \* "minimal" = init_shaders is called, "full" = full_shaders is called
    missing,    \* files of the shader directory that cannot be read at run time
    nshaders,   \* number of shaders the engine holds (the next handle it hands out)
    pc,         \* "load", "stage", "return", "done"
    n,          \* index of the next add_shader call site
    locals,     \* the *_src bindings of the destructuring let
    handles,    \* the ShaderId bindings made so far
    log,        \* add_shader invocations observed by the engine, in order
    result      \* what the build operation produced

vars == <<backend, variant, missing, nshaders, pc, n, locals, handles, log, result>>

\* ---------------------------------------------------------------- bounds
MaxMissing == 1     \* at most this many files are absent from the shader directory
MaxErr == 2         \* number of distinct engine error values
MaxPrior == 1       \* shaders the engine may already hold before the build

\* ---------------------------------------------------------------- data
RO == "BufReadOnly"
RW == "Buffer"

ErrorValues == 1..MaxErr

\* every file of the shader directory that some backend names
ShaderFiles ==
    { "pathtag_reduce.wgsl", "pathtag_scan.wgsl", "bbox_clear.wgsl", "pathseg.wgsl",
      "draw_reduce.wgsl", "draw_leaf.wgsl", "binning.wgsl", "tile_alloc.wgsl",
      "path_coarse.wgsl", "path_coarse_full.wgsl", "backdrop.wgsl", "backdrop_dyn.wgsl",
      "coarse.wgsl", "fine.wgsl" }

\* the text held by a file
Text(file) == [file |-> file]

\* ---------------------------------------------------------------- load_shader_sources
\* the names passed to read_shader, in tuple order (disk backend)
DiskNames ==
    << "pathtag_reduce", "pathtag_scan", "bbox_clear", "pathseg", "draw_reduce",
       "draw_leaf", "binning", "tile_alloc", "path_coarse", "backdrop", "coarse", "fine" >>

\* the files named by include_str!, in tuple order (embedded backend)
EmbeddedFiles ==
    << "pathtag_reduce.wgsl", "pathtag_scan.wgsl", "bbox_clear.wgsl", "pathseg.wgsl",
       "draw_reduce.wgsl", "draw_leaf.wgsl", "binning.wgsl", "tile_alloc.wgsl",
       "path_coarse_full.wgsl", "coarse.wgsl", "backdrop_dyn.wgsl", "fine.wgsl" >>

\* variant of read_shader: unwrap_or_default() in place of unwrap()
read_shader_or_default(path, gone) ==
    [ok |-> TRUE,
     text |-> IF (path \o ".wgsl") \in gone THEN [file |-> ""] ELSE Text(path \o ".wgsl")]

\* fs::read_to_string(shader_dir.join(path + ".wgsl")): Ok(text) or Err
read_shader(path, gone) ==
    IF (path \o ".wgsl") \in gone
    THEN [ok |-> FALSE, text |-> [file |-> ""]]
    ELSE [ok |-> TRUE, text |-> Text(path \o ".wgsl")]

\* the tuple returned by load_shader_sources, or a panic when an unwrap() meets Err
load_shader_sources(be, gone) ==
    IF be = "disk"
    THEN IF \E i \in DOMAIN DiskNames : ~read_shader(DiskNames[i], gone).ok
         THEN [panic |-> TRUE, tuple |-> << >>]
         ELSE [panic |-> FALSE,
               tuple |-> [i \in DOMAIN DiskNames |-> read_shader(DiskNames[i], gone).text]]
    ELSE [panic |-> FALSE,
          tuple |-> [i \in DOMAIN EmbeddedFiles |-> Text(EmbeddedFiles[i])]]

\* ---------------------------------------------------------------- init_shaders
\* the destructuring pattern bound to the tuple
InitShadersPattern ==
    << "pathtag_reduce_src", "pathtag_scan_src", "bbox_clear_src", "pathseg_src",
       "draw_reduce_src", "draw_leaf_src", "binning_src", "tile_alloc_src",
       "path_coarse_src", "coarse_src", "backdrop_src", "fine_src" >>

empty == {}

\* variant of path_coarse_config: the commented-out insert of "cubics_out" is live
path_coarse_config_cubics_out == {"cubics_out"}

path_coarse_config == {}

\* variant of InitShadersCalls: the backdrop call carries the binding list of the
\* full pipeline's backdrop stage
InitShadersCalls_full_backdrop_bindings ==
    << [stage |-> "pathtag_reduce", src |-> "pathtag_reduce_src", config |-> empty,
        bindings |-> <<RO, RO, RW>>],
       [stage |-> "pathtag_scan", src |-> "pathtag_scan_src", config |-> empty,
        bindings |-> <<RO, RO, RO, RW>>],
       [stage |-> "path_coarse", src |-> "path_coarse_src", config |-> path_coarse_config,
        bindings |-> <<RO, RO, RO, RW, RW>>],
       [stage |-> "backdrop", src |-> "backdrop_src", config |-> empty,
        bindings |-> <<RO, RO, RW>>],
       [stage |-> "fine", src |-> "fine_src", config |-> empty,
        bindings |-> <<RO, RO, RO, RW>>] >>

\* the add_shader call sites, in program order
InitShadersCalls ==
    << [stage |-> "pathtag_reduce", src |-> "pathtag_reduce_src", config |-> empty,
        bindings |-> <<RO, RO, RW>>],
       [stage |-> "pathtag_scan", src |-> "pathtag_scan_src", config |-> empty,
        bindings |-> <<RO, RO, RO, RW>>],
       [stage |-> "path_coarse", src |-> "path_coarse_src", config |-> path_coarse_config,
        bindings |-> <<RO, RO, RO, RW, RW>>],
       [stage |-> "backdrop", src |-> "backdrop_src", config |-> empty,
        bindings |-> <<RO, RW>>],
       [stage |-> "fine", src |-> "fine_src", config |-> empty,
        bindings |-> <<RO, RO, RO, RW>>] >>

\* Ok(Shaders { pathtag_reduce, pathtag_scan, path_coarse, backdrop, fine })
ShadersFields == {"pathtag_reduce", "pathtag_scan", "path_coarse", "backdrop", "fine"}

\* variant of Shaders: the backdrop field is initialised from the fine binding
Shaders_backdrop_from_fine(h) ==
    [f \in ShadersFields |-> IF f = "backdrop" THEN h["fine"] ELSE h[f]]

Shaders(h) == [f \in ShadersFields |-> h[f]]

\* ---------------------------------------------------------------- full_shaders
FullShadersPattern ==
    << "pathtag_reduce_src", "pathtag_scan_src", "bbox_clear_src", "pathseg_src",
       "draw_reduce_src", "draw_leaf_src", "binning_src", "tile_alloc_src",
       "path_coarse_full_src", "coarse_src", "backdrop_dyn_src", "fine_src" >>

full_config == {"full"}

FullShadersCalls ==
    << [stage |-> "pathtag_reduce", src |-> "pathtag_reduce_src", config |-> full_config,
        bindings |-> <<RO, RO, RW>>],
       [stage |-> "pathtag_scan", src |-> "pathtag_scan_src", config |-> full_config,
        bindings |-> <<RO, RO, RO, RW>>],
       [stage |-> "bbox_clear", src |-> "bbox_clear_src", config |-> empty,
        bindings |-> <<RO, RW>>],
       [stage |-> "pathseg", src |-> "pathseg_src", config |-> full_config,
        bindings |-> <<RO, RO, RO, RW, RW>>],
       [stage |-> "draw_reduce", src |-> "draw_reduce_src", config |-> empty,
        bindings |-> <<RO, RO, RW>>],
       [stage |-> "draw_leaf", src |-> "draw_leaf_src", config |-> empty,
        bindings |-> <<RO, RO, RO, RO, RW, RW>>],
       [stage |-> "binning", src |-> "binning_src", config |-> empty,
        bindings |-> <<RO, RO, RO, RO, RW, RW, RW, RW>>],
       [stage |-> "tile_alloc", src |-> "tile_alloc_src", config |-> empty,
        bindings |-> <<RO, RO, RO, RW, RW, RW>>],
       [stage |-> "path_coarse", src |-> "path_coarse_full_src", config |-> full_config,
        bindings |-> <<RO, RO, RO, RO, RO, RW, RW, RW>>],
       [stage |-> "backdrop", src |-> "backdrop_dyn_src", config |-> empty,
        bindings |-> <<RO, RO, RW>>],
       [stage |-> "coarse", src |-> "coarse_src", config |-> empty,
        bindings |-> <<RO, RO, RO, RO, RO, RO, RO, RO, RW, RW>>],
       [stage |-> "fine", src |-> "fine_src", config |-> full_config,
        bindings |-> <<RO, RO, RO, RW, RO>>] >>

FullShadersFields ==
    {"pathtag_reduce", "pathtag_scan", "bbox_clear", "pathseg", "draw_reduce", "draw_leaf",
     "binning", "tile_alloc", "path_coarse", "backdrop", "coarse", "fine"}

FullShaders(h) == [f \in FullShadersFields |-> h[f]]

\* ---------------------------------------------------------------- the `?` operator
\* Err(e) => return Err(From::from(e)); the error type is the function's own
\* variant of QuestionMarkErr: the engine's error is replaced by a fixed one
QuestionMarkErr_fixed(e) == [kind |-> "err", err |-> 1]

QuestionMarkErr(e) == [kind |-> "err", err |-> e]

\* ---------------------------------------------------------------- state machine
NoLocals == [v \in {} |-> Text("")]
NoHandles == [s \in {} |-> 0]
NoResult == [kind |-> "none"]

Init ==
    /\ backend \in {"disk", "embedded"}
    /\ variant \in {"minimal", "full"}
    /\ missing \in {m \in SUBSET ShaderFiles : Cardinality(m) <= MaxMissing}
    /\ nshaders \in 0..MaxPrior
    /\ pc = "load"
    /\ n = 1
    /\ locals = NoLocals
    /\ handles = NoHandles
    /\ log = << >>
    /\ result = NoResult

\* let (a, b, ...) = load_shader_sources();
Load(pattern) ==
    /\ pc = "load"
    /\ LET r == load_shader_sources(backend, missing) IN
       IF r.panic
       THEN /\ pc' = "done"
            /\ result' = [kind |-> "panic"]
            /\ UNCHANGED locals
       ELSE /\ pc' = "stage"
            /\ locals' = [v \in {pattern[i] : i \in DOMAIN pattern} |->
                            r.tuple[CHOOSE i \in DOMAIN pattern : pattern[i] = v]]
            /\ UNCHANGED result
    /\ UNCHANGED <<backend, variant, missing, nshaders, n, handles, log>>

\* let <stage> = engine.add_shader(device, preprocess(&<src>, &<config>, &imports).into(), &[..])?;
\* the engine either registers the shader and returns the next handle, or rejects it
AddShader(calls) ==
    /\ pc = "stage"
    /\ n \in DOMAIN calls
    /\ LET c == calls[n]
           call == [stage |-> c.stage, src |-> locals[c.src], features |-> c.config,
                    bindings |-> c.bindings]
       IN \/ /\ log' = Append(log, [call |-> call, ret |-> [kind |-> "ok", id |-> nshaders]])
             /\ nshaders' = nshaders + 1
             /\ handles' = handles @@ (c.stage :> nshaders)
             /\ n' = n + 1
             /\ pc' = IF n + 1 \in DOMAIN calls THEN "stage" ELSE "return"
             /\ UNCHANGED result
          \/ \E e \in ErrorValues :
             /\ log' = Append(log, [call |-> call, ret |-> [kind |-> "err", err |-> e]])
             /\ result' = QuestionMarkErr(e)
             /\ pc' = "done"
             /\ UNCHANGED <<nshaders, handles, n>>
    /\ UNCHANGED <<backend, variant, missing, locals>>

\* Ok(Shaders { .. }) / Ok(FullShaders { .. })
ReturnOk(record) ==
    /\ pc = "return"
    /\ result' = [kind |-> "ok", rec |-> record]
    /\ pc' = "done"
    /\ UNCHANGED <<backend, variant, missing, nshaders, n, locals, handles, log>>

init_shaders ==
    /\ variant = "minimal"
    /\ \/ Load(InitShadersPattern)
       \/ AddShader(InitShadersCalls)
       \/ ReturnOk(Shaders(handles))

full_shaders ==
    /\ variant = "full"
    /\ \/ Load(FullShadersPattern)
       \/ AddShader(FullShadersCalls)
       \/ ReturnOk(FullShaders(handles))

Next == init_shaders \/ full_shaders

Spec == Init /\ [][Next]_vars

TypeOK ==
    /\ pc \in {"load", "stage", "return", "done"}
    /\ result.kind \in {"none", "ok", "err", "panic"}
    /\ (pc = "done") <=> (result.kind # "none")

\* ================================================================ properties
\* The stage tables as the specification states them (section 6): stage, source file,
\* feature set, binding signature.
MinimalTable ==
    << [stage |-> "pathtag_reduce", file |-> "pathtag_reduce.wgsl", features |-> {},
        bindings |-> <<RO, RO, RW>>],
       [stage |-> "pathtag_scan", file |-> "pathtag_scan.wgsl", features |-> {},
        bindings |-> <<RO, RO, RO, RW>>],
       [stage |-> "path_coarse", file |-> "path_coarse.wgsl", features |-> {},
        bindings |-> <<RO, RO, RO, RW, RW>>],
       [stage |-> "backdrop", file |-> "backdrop.wgsl", features |-> {},
        bindings |-> <<RO, RW>>],
       [stage |-> "fine", file |-> "fine.wgsl", features |-> {},
        bindings |-> <<RO, RO, RO, RW>>] >>

FullTable ==
    << [stage |-> "pathtag_reduce", file |-> "pathtag_reduce.wgsl", features |-> {"full"},
        bindings |-> <<RO, RO, RW>>],
       [stage |-> "pathtag_scan", file |-> "pathtag_scan.wgsl", features |-> {"full"},
        bindings |-> <<RO, RO, RO, RW>>],
       [stage |-> "bbox_clear", file |-> "bbox_clear.wgsl", features |-> {},
        bindings |-> <<RO, RW>>],
       [stage |-> "pathseg", file |-> "pathseg.wgsl", features |-> {"full"},
        bindings |-> <<RO, RO, RO, RW, RW>>],
       [stage |-> "draw_reduce", file |-> "draw_reduce.wgsl", features |-> {},
        bindings |-> <<RO, RO, RW>>],
       [stage |-> "draw_leaf", file |-> "draw_leaf.wgsl", features |-> {},
        bindings |-> <<RO, RO, RO, RO, RW, RW>>],
       [stage |-> "binning", file |-> "binning.wgsl", features |-> {},
        bindings |-> <<RO, RO, RO, RO, RW, RW, RW, RW>>],
       [stage |-> "tile_alloc", file |-> "tile_alloc.wgsl", features |-> {},
        bindings |-> <<RO, RO, RO, RW, RW, RW>>],
       [stage |-> "path_coarse", file |-> "path_coarse_full.wgsl", features |-> {"full"},
        bindings |-> <<RO, RO, RO, RO, RO, RW, RW, RW>>],
       [stage |-> "backdrop", file |-> "backdrop_dyn.wgsl", features |-> {},
        bindings |-> <<RO, RO, RW>>],
       [stage |-> "coarse", file |-> "coarse.wgsl", features |-> {},
        bindings |-> <<RO, RO, RO, RO, RO, RO, RO, RO, RW, RW>>],
       [stage |-> "fine", file |-> "fine.wgsl", features |-> {"full"},
        bindings |-> <<RO, RO, RO, RW, RO>>] >>

Table == IF variant = "minimal" THEN MinimalTable ELSE FullTable

TableStages == {Table[i].stage : i \in DOMAIN Table}

TableFile(stage) == Table[CHOOSE i \in DOMAIN Table : Table[i].stage = stage].file

\* the files the running backend tries to read at run time
FilesRead == IF backend = "disk" THEN {DiskNames[i] \o ".wgsl" : i \in DOMAIN DiskNames} ELSE {}

\* the Source Provider fails for some name
SourceFails == FilesRead \cap missing # {}

EngineAcceptedAll == \A i \in DOMAIN log : log[i].ret.kind = "ok"

Observed(i) == [stage |-> log[i].call.stage, bindings |-> log[i].call.bindings]

Expected(i) == [stage |-> Table[i].stage, bindings |-> Table[i].bindings]

\* C1: the add_shader invocations observed on the engine follow the variant's table:
\* at every moment they are a prefix of it (same stages, same binding signatures, same
\* order), and when every source is available and the engine accepted every call the
\* finished build has made exactly the calls of the table, 5 for minimal and 12 for full.
C1_CallSequence ==
    /\ Len(log) <= Len(Table)
    /\ \A i \in DOMAIN log : Observed(i) = Expected(i)
    /\ (pc = "done" /\ missing = {} /\ EngineAcceptedAll) =>
          /\ result.kind = "ok"
          /\ Len(log) = Len(Table)
          /\ Len(log) = IF variant = "minimal" THEN 5 ELSE 12

C1_Witness ==
    /\ pc = "done" /\ missing = {} /\ EngineAcceptedAll
    /\ variant = "full" /\ Len(log) = 12
    /\ Observed(11) = [stage |-> "coarse",
                       bindings |-> <<RO, RO, RO, RO, RO, RO, RO, RO, RW, RW>>]

\* C2: the path_coarse and backdrop stages are registered with the text of the file the
\* variant's table names: path_coarse.wgsl / backdrop.wgsl in the minimal build,
\* path_coarse_full.wgsl / backdrop_dyn.wgsl in the full build.
C2_SourceSelection ==
    \A i \in DOMAIN log :
        log[i].call.stage \in {"path_coarse", "backdrop"} =>
            log[i].call.src = Text(TableFile(log[i].call.stage))

FullFeatureStages == {"pathtag_reduce", "pathtag_scan", "pathseg", "path_coarse", "fine"}

\* C3: every stage is preprocessed with the feature set of its row: {full} exactly for
\* pathtag_reduce, pathtag_scan, pathseg, path_coarse and fine of the full build, the
\* empty set for the other seven full stages and for all five minimal stages.
C3_FeatureSets ==
    /\ \A i \in DOMAIN log :
          log[i].call.features =
              IF variant = "full" /\ log[i].call.stage \in FullFeatureStages
              THEN {"full"} ELSE {}
    /\ result.kind = "ok" =>
          /\ {log[i].call.stage : i \in DOMAIN log} = TableStages
          /\ {log[i].call.stage : i \in {j \in DOMAIN log : log[j].call.features = {"full"}}}
                = IF variant = "full" THEN FullFeatureStages ELSE {}
          /\ Cardinality({j \in DOMAIN log : log[j].call.features = {}})
                = IF variant = "full" THEN 7 ELSE 5

C3_Witness ==
    /\ result.kind = "ok" /\ variant = "full"
    /\ log[4].call.stage = "pathseg" /\ log[4].call.features = {"full"}
    /\ log[3].call.stage = "bbox_clear" /\ log[3].call.features = {}

\* C4: when the engine rejects the call of stage N, that call is the last one the engine
\* observes, and the build has returned that same error value instead of a record.
C4_EngineErrorPropagated ==
    \A i \in DOMAIN log :
        log[i].ret.kind = "err" =>
            /\ i = Len(log)
            /\ pc = "done"
            /\ result = [kind |-> "err", err |-> log[i].ret.err]

C4_Witness ==
    /\ variant = "full" /\ Len(log) = 3 /\ pc = "done"
    /\ log[3].ret = [kind |-> "err", err |-> 2]
    /\ result = [kind |-> "err", err |-> 2]

\* C5: a build operation always ends by returning either a record or an error value, and
\* when the Source Provider fails for a name it reads, what it returns is an error
\* (SourceUnavailable).
C5_SourceUnavailableReturned ==
    pc = "done" =>
        /\ result.kind \in {"ok", "err"}
        /\ SourceFails => result.kind = "err"

\* the position of the first stage of the table whose source file is unavailable
MissingStages == {k \in DOMAIN Table : Table[k].file \in missing}

FirstMissingStage == CHOOSE k \in MissingStages : \A j \in MissingStages : k <= j

\* C6 (as claimed): when the source of the k-th stage of the table is unavailable, the
\* sources of stages 1..k-1 are available and the engine accepts them, the build fails
\* with the engine having recorded exactly the k-1 calls of stages 1..k-1.
C6_CallsBeforeMissingSource ==
    (backend = "disk" /\ pc = "done" /\ MissingStages # {} /\ EngineAcceptedAll) =>
        /\ result.kind # "ok"
        /\ Len(log) = FirstMissingStage - 1

\* C6 (amended): on the disk backend, when a file that load_shader_sources reads is
\* unavailable, the engine never observes an add_shader call, whatever the position of
\* the stage that uses the file, and the build does not produce a record.
C6_NoCallsWhenSourceMissing ==
    SourceFails =>
        /\ log = << >>
        /\ pc \in {"load", "done"}
        /\ pc = "done" => result.kind \notin {"ok", "none"}

C6_Witness ==
    /\ variant = "minimal" /\ backend = "disk" /\ missing = {"fine.wgsl"}
    /\ pc = "done" /\ result.kind # "ok" /\ log = << >>

\* C7: both backends yield the text of the same file at every position of the tuple
\* returned by load_shader_sources, so every *_src binding, and with it the text
\* registered for every stage, is the same whichever backend is active.
C7_BackendsInterchangeable ==
    \A v \in DOMAIN locals :
        LET pattern == IF variant = "minimal" THEN InitShadersPattern ELSE FullShadersPattern
            i == CHOOSE j \in DOMAIN pattern : pattern[j] = v
        IN /\ locals[v] = load_shader_sources("disk", {}).tuple[i]
           /\ locals[v] = load_shader_sources("embedded", {}).tuple[i]

\* C8: when the build succeeds, every field of the returned record holds the handle the
\* engine returned for the add_shader call of the stage of the same name; the record has
\* one field per stage of the table and the handles are pairwise distinct.
C8_RecordHoldsStageHandles ==
    result.kind = "ok" =>
        /\ DOMAIN result.rec = TableStages
        /\ \A f \in DOMAIN result.rec :
              \E i \in DOMAIN log :
                  /\ log[i].call.stage = f
                  /\ log[i].ret = [kind |-> "ok", id |-> result.rec[f]]
        /\ \A f, g \in DOMAIN result.rec : f # g => result.rec[f] # result.rec[g]
        /\ Cardinality({result.rec[f] : f \in DOMAIN result.rec})
              = IF variant = "minimal" THEN 5 ELSE 12

C8_Witness ==
    /\ result.kind = "ok" /\ variant = "full" /\ nshaders = 13
    /\ result.rec["pathtag_reduce"] = 1
    /\ result.rec["fine"] = 12

\* C9: every stage other than path_coarse and backdrop is registered with the text of the
\* file bearing the stage's own name; the coarse stage gets the text of coarse.wgsl.
C9_OwnNameSource ==
    \A i \in DOMAIN log :
        log[i].call.stage \notin {"path_coarse", "backdrop"} =>
            log[i].call.src = Text(log[i].call.stage \o ".wgsl")

MinimalFiles == {MinimalTable[i].file : i \in DOMAIN MinimalTable}

\* C10: the minimal build depends only on the five files of its table: no text from
\* another file reaches the engine, and when those five files are available and the
\* engine accepts every call the build succeeds, whatever other file is unavailable.
C10_MinimalDependsOnItsFiles ==
    variant = "minimal" =>
        /\ \A i \in DOMAIN log : log[i].call.src.file \in MinimalFiles
        /\ (pc = "done" /\ MinimalFiles \cap missing = {} /\ EngineAcceptedAll) =>
              result.kind = "ok"
====
